---- MODULE Spec2Model ----
(***************************************************************************)
(* amp-list (extensions/amp-list/0.1/amp-list.js): the fetch -> render ->  *)
(* reconcile -> measure pipeline of AmpList, with the placeholder/fallback *)
(* toggling of layoutCallback and the attribute-mutation triggers.         *)
(*                                                                         *)
(* Promises are modelled by the position of each cycle (its stage) and one *)
(* action per promise reaction; vsync.mutate and vsync.measure are FIFO    *)
(* queues of callbacks run by the scheduler.                               *)
(***************************************************************************)
EXTENDS Integers, Sequences, FiniteSets, TLC

\* ------------------------------------------------------------------ bounds
\* number of fetch/render cycles one element goes through
MaxCycles == 2
\* largest height the host lays the element out with at first, in units of one
\* list item
MaxHeight == 1

\* ------------------------------------------------------------- data values
Items == {"a", "b"}
\* the role attribute the template declares on the element it renders for an
\* item ("": the template declares none)
templateRole(item) == IF item = "b" THEN "button" ELSE ""

\* the arrays a fetch or a [state] mutation delivers: lists of distinct items
Arrays ==
    {s \in UNION {[1..n -> Items] : n \in 0..Cardinality(Items)} :
        \A i, j \in DOMAIN s : s[i] = s[j] => i = j}
\* a JSON value: an array of items, or something that is not an array
JsonArray(s) == [arr |-> TRUE, val |-> "", items |-> s]
JsonScalar(v) == [arr |-> FALSE, val |-> v, items |-> <<>>]
JsonValues == {JsonArray(s) : s \in Arrays} \cup {JsonScalar(v) : v \in Items}

NoError == [message |-> "", cause |-> ""]
\* the rejection reason of fetchBatchedJsonFor
NetworkError == [message |-> "network", cause |-> ""]
\* the rejection reason of findAndRenderTemplateArray
TemplateError == [message |-> "template", cause |-> ""]

VARIABLES
    hasFallback,        \* getFallback() finds a fallback child
    cycles,             \* one record per started fetch/render pipeline
    container_,         \* children of this.container_
    lastApplied,        \* cycle whose rendered_ ran last (0: none)
    lastRendered,       \* the elements that call of rendered_ was given
    eventChildren,      \* children a listener saw at the last rendered event
    fallbackDisplayed_, \* this.fallbackDisplayed_
    fallbackShown,      \* the fallback child is visible (toggleFallback)
    placeholderShown,   \* the placeholder child is visible
    mutateQueue,        \* callbacks passed to vsync.mutate, not yet run
    lastReaction,       \* last layoutCallback reaction that ran
    measureQueue,       \* number of vsync.measure callbacks not yet run
    offsetHeight,       \* this.element.offsetHeight
    pendingResize,      \* attemptChangeHeight promises not yet settled
    counters            \* fetches, renderer calls, events, measures, warnings so far

vars == <<hasFallback, cycles, container_, lastApplied, lastRendered,
          eventChildren,
          fallbackDisplayed_, fallbackShown, placeholderShown, mutateQueue,
          lastReaction, measureQueue, offsetHeight,
          pendingResize, counters>>

domVars == <<container_, lastApplied, lastRendered, eventChildren>>
visualVars == <<fallbackDisplayed_, fallbackShown, placeholderShown,
                mutateQueue, lastReaction>>
layoutVars == <<measureQueue, offsetHeight, pendingResize>>

\* ------------------------------------------------------------ pure helpers
isArray(v) == v.arr

\* user().createError('Error fetching amp-list', error)
createError(message, error) == [message |-> message, cause |-> error.message]

\* user().assert(isArray(items), 'Response must contain an array ...')
AssertionError == [message |-> "Response must contain an array", cause |-> ""]

\* element.hasAttribute('role') ? keep : setAttribute('role', 'listitem')
setDefaultRole(element) ==
    IF element.role # "" THEN element ELSE [element EXCEPT !.role = "listitem"]

\* removeChildren(container)
removeChildren(children) == <<>>

\* mutant: the new elements are appended after the old children
reconcile_appendOnly(children, elements) ==
    children \o [i \in 1..Len(elements) |-> setDefaultRole(elements[i])]

\* removeChildren, then forEach: default role, appendChild
reconcile(children, elements) ==
    removeChildren(children) \o
        [i \in 1..Len(elements) |-> setDefaultRole(elements[i])]

\* findAndRenderTemplateArray resolved: one element per item, in the items'
\* order, with the role the template gives it
renderedElements(c, items) ==
    [i \in 1..Len(items) |->
        [cycle |-> c, item |-> items[i], role |-> templateRole(items[i])]]

\* BaseElement.togglePlaceholder(show): the placeholder's visibility afterwards
togglePlaceholder(show) == show

\* BaseElement.toggleFallback(state): the fallback's visibility afterwards
toggleFallback(state) == state

\* this.container_.scrollHeight: the content height, every child one unit high
scrollHeight == Len(container_)

\* mutant: a resize is requested when the content already fits exactly
needsResize_orEqual(contentHeight, height) == contentHeight >= height

\* if (scrollHeight > height) in the measure callback
needsResize(contentHeight, height) == contentHeight > height

\* mutant: the array check is missing
arrayAsserted_skipped(items) == TRUE

\* user().assert(isArray(items), ...) does not throw
arrayAsserted(items) == isArray(items)

\* mutations['state'] when the batch carries no state
Undefined == [arr |-> FALSE, val |-> "undefined", items |-> <<>>]

\* mutant: a state value that is not an array is passed on unwrapped
stateItems_unwrapped(state) == state.items

\* const items = isArray(state) ? state : [state]
stateItems(state) == IF isArray(state) THEN state.items ELSE <<state.val>>

RemoveAt(s, i) == SubSeq(s, 1, i - 1) \o SubSeq(s, i + 1, Len(s))

\* mutant: the hide branch queues its write without looking at the flag
toggleFallbackInMutate_unguarded(state, queue, displayed) ==
    IF state THEN Append(queue, "show") ELSE Append(queue, "hide")

\* toggleFallbackInMutate_(state): the mutate queue after the call
toggleFallbackInMutate_(state, queue, displayed) ==
    IF state
    THEN Append(queue, "show")
    ELSE IF displayed THEN Append(queue, "hide") ELSE queue

Bump(field) == [counters EXCEPT ![field] = @ + 1]

NewCycle(trigger, stage, reaction, items) ==
    [trigger |-> trigger, stage |-> stage, reaction |-> reaction,
     handled |-> FALSE, fetched |-> "none", rendererCalled |-> FALSE,
     items |-> items, err |-> NoError,
     stateToo |-> FALSE, supplied |-> Undefined]

\* ------------------------------------------------------------------- Init
Init ==
    /\ hasFallback \in BOOLEAN
    /\ cycles = <<>>
    /\ container_ = <<>>
    /\ lastApplied = 0
    /\ lastRendered = <<>>
    /\ eventChildren = <<>>
    /\ fallbackDisplayed_ = FALSE
    /\ fallbackShown = FALSE
    /\ placeholderShown = TRUE
    /\ mutateQueue = <<>>
    /\ lastReaction = [cycle |-> 0, kind |-> "none"]
    /\ measureQueue = 0
    /\ offsetHeight \in 0..MaxHeight
    /\ pendingResize = <<>>
    /\ counters = [fetches |-> 0, renders |-> 0, events |-> 0,
                   measures |-> 0, warnings |-> 0]

\* ---------------------------------------------------------------- actions
\* mutant: the reactions are attached whether or not a fallback exists
layoutCallback_noFallbackCheck ==
    /\ Len(cycles) < MaxCycles
    /\ cycles' = Append(cycles, NewCycle("layout", "fetching", TRUE, <<>>))
    /\ counters' = Bump("fetches")
    /\ UNCHANGED <<hasFallback, domVars, visualVars, layoutVars>>

\* layoutCallback(): populateList_() and, with a fallback, the two reactions
layoutCallback ==
    /\ Len(cycles) < MaxCycles
    /\ cycles' = Append(cycles, NewCycle("layout", "fetching", hasFallback, <<>>))
    /\ counters' = Bump("fetches")
    /\ UNCHANGED <<hasFallback, domVars, visualVars, layoutVars>>

\* mutant: a batch with state alone asks the data source as well
mutatedAttributesCallback_refetches(src, state) ==
    /\ Len(cycles) < MaxCycles
    /\ IF src
       THEN /\ cycles' = Append(cycles,
                   [NewCycle("src", "fetching", FALSE, <<>>)
                       EXCEPT !.stateToo = (state # Undefined)])
            /\ counters' = [counters EXCEPT
                   !.fetches = @ + 1,
                   !.warnings = IF state # Undefined THEN @ + 1 ELSE @]
       ELSE IF state # Undefined
       THEN /\ cycles' = Append(cycles,
                   [NewCycle("state", "rendering", FALSE, stateItems(state))
                       EXCEPT !.rendererCalled = TRUE, !.supplied = state])
            /\ counters' = [counters EXCEPT !.renders = @ + 1, !.fetches = @ + 1]
       ELSE UNCHANGED <<cycles, counters>>
    /\ UNCHANGED <<hasFallback, domVars, visualVars, layoutVars>>

\* mutant: the warning for a batch with both src and state is missing
mutatedAttributesCallback_silent(src, state) ==
    /\ Len(cycles) < MaxCycles
    /\ IF src
       THEN /\ cycles' = Append(cycles,
                   [NewCycle("src", "fetching", FALSE, <<>>)
                       EXCEPT !.stateToo = (state # Undefined)])
            /\ counters' = Bump("fetches")
       ELSE IF state # Undefined
       THEN /\ cycles' = Append(cycles,
                   [NewCycle("state", "rendering", FALSE, stateItems(state))
                       EXCEPT !.rendererCalled = TRUE, !.supplied = state])
            /\ counters' = Bump("renders")
       ELSE UNCHANGED <<cycles, counters>>
    /\ UNCHANGED <<hasFallback, domVars, visualVars, layoutVars>>

\* mutatedAttributesCallback(mutations): src starts a fetch cycle, otherwise
\* state is rendered directly; both together warn
mutatedAttributesCallback(src, state) ==
    /\ Len(cycles) < MaxCycles
    /\ IF src
       THEN /\ cycles' = Append(cycles,
                   [NewCycle("src", "fetching", FALSE, <<>>)
                       EXCEPT !.stateToo = (state # Undefined)])
            /\ counters' = [counters EXCEPT
                   !.fetches = @ + 1,
                   !.warnings = IF state # Undefined THEN @ + 1 ELSE @]
       ELSE IF state # Undefined
       THEN /\ cycles' = Append(cycles,
                   [NewCycle("state", "rendering", FALSE, stateItems(state))
                       EXCEPT !.rendererCalled = TRUE, !.supplied = state])
            /\ counters' = Bump("renders")
       ELSE UNCHANGED <<cycles, counters>>
    /\ UNCHANGED <<hasFallback, domVars, visualVars, layoutVars>>

\* fetchItems_ resolved with v: the first reaction of populateList_
FetchResolved(c, v) ==
    /\ cycles[c].stage = "fetching"
    /\ IF arrayAsserted(v)
       THEN /\ cycles' = [cycles EXCEPT ![c].stage = "rendering",
                                        ![c].fetched = IF isArray(v) THEN "array" ELSE "other",
                                        ![c].rendererCalled = TRUE,
                                        ![c].items = v.items]
            /\ counters' = Bump("renders")
       ELSE /\ cycles' = [cycles EXCEPT ![c].stage = "rejected",
                                        ![c].fetched = IF isArray(v) THEN "array" ELSE "other",
                                        ![c].err = AssertionError]
                    /\ UNCHANGED counters
    /\ UNCHANGED <<hasFallback, domVars, visualVars, layoutVars>>

\* mutant: the rejection reaction empties the list before it rethrows
FetchRejected_clears(c) ==
    /\ cycles[c].stage = "fetching"
    /\ cycles' = [cycles EXCEPT
           ![c].stage = "rejected",
           ![c].fetched = "error",
           ![c].err = createError("Error fetching amp-list", NetworkError)]
    /\ container_' = removeChildren(container_)
    /\ UNCHANGED <<hasFallback, counters, lastApplied, lastRendered,
                   eventChildren, visualVars, layoutVars>>

\* mutant: the rejection reaction does not rethrow and returns a promise that
\* never settles
FetchRejected_pending(c) ==
    /\ cycles[c].stage = "fetching"
    /\ cycles' = [cycles EXCEPT ![c].stage = "failed", ![c].fetched = "error"]
    /\ UNCHANGED <<hasFallback, counters, domVars, visualVars, layoutVars>>

\* fetchItems_ rejected: the second reaction of populateList_ rethrows
FetchRejected(c) ==
    /\ cycles[c].stage = "fetching"
    /\ cycles' = [cycles EXCEPT
           ![c].stage = "rejected",
           ![c].fetched = "error",
           ![c].err = createError("Error fetching amp-list", NetworkError)]
    /\ UNCHANGED <<hasFallback, counters, domVars, visualVars, layoutVars>>

\* mutant: the event is dispatched before the children are replaced
rendered_dispatchFirst(c, elements) ==
    /\ eventChildren' = container_
    /\ container_' = reconcile(container_, elements)
    /\ lastApplied' = c
    /\ lastRendered' = elements
    /\ counters' = [counters EXCEPT !.events = @ + 1, !.measures = @ + 1]
    /\ measureQueue' = measureQueue + 1

\* rendered_(elements): reconcile, dispatch the event, schedule the measure
rendered_(c, elements) ==
    /\ container_' = reconcile(container_, elements)
    /\ eventChildren' = container_'
    /\ lastApplied' = c
    /\ lastRendered' = elements
    /\ counters' = [counters EXCEPT !.events = @ + 1, !.measures = @ + 1]
    /\ measureQueue' = measureQueue + 1

\* findAndRenderTemplateArray resolved: rendered_ runs as its reaction
RenderResolved(c) ==
    /\ cycles[c].stage = "rendering"
    /\ LET elements == renderedElements(c, cycles[c].items)
       IN /\ rendered_(c, elements)
          /\ cycles' = [cycles EXCEPT ![c].stage = "resolved",
                                      ![c].items = <<>>,
                                      ![c].supplied = Undefined]
    /\ UNCHANGED <<hasFallback, visualVars, offsetHeight, pendingResize>>

\* mutant: the children are removed before the render error is passed on
RenderRejected_reconciles(c) ==
    /\ cycles[c].stage = "rendering"
    /\ cycles' = [cycles EXCEPT ![c].stage = "rejected",
                                ![c].items = <<>>,
                                ![c].supplied = Undefined,
                                ![c].err = TemplateError]
    /\ container_' = removeChildren(container_)
    /\ UNCHANGED <<hasFallback, counters, lastApplied, lastRendered,
                   eventChildren, visualVars, layoutVars>>

\* findAndRenderTemplateArray rejected: the rejection passes through
RenderRejected(c) ==
    /\ cycles[c].stage = "rendering"
    /\ cycles' = [cycles EXCEPT ![c].stage = "rejected",
                                ![c].items = <<>>,
                                ![c].supplied = Undefined,
                                ![c].err = TemplateError]
    /\ UNCHANGED <<hasFallback, counters, domVars, visualVars, layoutVars>>

\* layoutCallback's reaction to populate resolving
LayoutResolved(c) ==
    /\ cycles[c].stage = "resolved"
    /\ cycles[c].reaction /\ ~cycles[c].handled
    /\ mutateQueue' = toggleFallbackInMutate_(FALSE, mutateQueue, fallbackDisplayed_)
    /\ cycles' = [cycles EXCEPT ![c].handled = TRUE]
    /\ lastReaction' = [cycle |-> c, kind |-> "resolved"]
    /\ UNCHANGED <<hasFallback, counters, domVars, layoutVars,
                   fallbackDisplayed_, fallbackShown, placeholderShown>>

\* mutant: the rejection reaction hides the fallback instead of showing it
LayoutRejected_hides(c) ==
    /\ cycles[c].stage = "rejected"
    /\ cycles[c].reaction /\ ~cycles[c].handled
    /\ placeholderShown' = togglePlaceholder(FALSE)
    /\ mutateQueue' = toggleFallbackInMutate_(FALSE, mutateQueue, fallbackDisplayed_)
    /\ cycles' = [cycles EXCEPT ![c].handled = TRUE]
    /\ lastReaction' = [cycle |-> c, kind |-> "rejected"]
    /\ UNCHANGED <<hasFallback, counters, domVars, layoutVars,
                   fallbackDisplayed_, fallbackShown>>

\* mutant: the rejection reaction leaves the placeholder alone
LayoutRejected_keepsPlaceholder(c) ==
    /\ cycles[c].stage = "rejected"
    /\ cycles[c].reaction /\ ~cycles[c].handled
    /\ mutateQueue' = toggleFallbackInMutate_(TRUE, mutateQueue, fallbackDisplayed_)
    /\ cycles' = [cycles EXCEPT ![c].handled = TRUE]
    /\ lastReaction' = [cycle |-> c, kind |-> "rejected"]
    /\ UNCHANGED <<hasFallback, counters, domVars, layoutVars,
                   fallbackDisplayed_, fallbackShown, placeholderShown>>

\* layoutCallback's reaction to populate rejecting
LayoutRejected(c) ==
    /\ cycles[c].stage = "rejected"
    /\ cycles[c].reaction /\ ~cycles[c].handled
    /\ placeholderShown' = togglePlaceholder(FALSE)
    /\ mutateQueue' = toggleFallbackInMutate_(TRUE, mutateQueue, fallbackDisplayed_)
    /\ cycles' = [cycles EXCEPT ![c].handled = TRUE]
    /\ lastReaction' = [cycle |-> c, kind |-> "rejected"]
    /\ UNCHANGED <<hasFallback, counters, domVars, layoutVars,
                   fallbackDisplayed_, fallbackShown>>

\* mutant: the hide callback toggles the fallback but leaves the flag set
RunMutate_flagNotCleared ==
    /\ mutateQueue # <<>>
    /\ fallbackShown' = toggleFallback(Head(mutateQueue) = "show")
    /\ fallbackDisplayed_' = (fallbackDisplayed_ \/ Head(mutateQueue) = "show")
    /\ mutateQueue' = Tail(mutateQueue)
    /\ UNCHANGED <<hasFallback, cycles, counters, domVars, layoutVars,
                   placeholderShown, lastReaction>>

\* the scheduler runs the oldest vsync.mutate callback
RunMutate ==
    /\ mutateQueue # <<>>
    /\ fallbackShown' = toggleFallback(Head(mutateQueue) = "show")
    /\ fallbackDisplayed_' = (Head(mutateQueue) = "show")
    /\ mutateQueue' = Tail(mutateQueue)
    /\ UNCHANGED <<hasFallback, cycles, counters, domVars, layoutVars,
                   placeholderShown, lastReaction>>

\* the scheduler runs the oldest vsync.measure callback
RunMeasure ==
    /\ measureQueue > 0
    /\ measureQueue' = measureQueue - 1
    /\ IF needsResize(scrollHeight, offsetHeight)
       THEN pendingResize' = Append(pendingResize, scrollHeight)
       ELSE UNCHANGED pendingResize
    /\ UNCHANGED <<hasFallback, cycles, counters, domVars, visualVars, offsetHeight>>

\* attemptChangeHeight(scrollHeight) resolved: the host applied the height
ChangeHeightResolved(i) ==
    /\ i \in 1..Len(pendingResize)
    /\ offsetHeight' = pendingResize[i]
    /\ pendingResize' = RemoveAt(pendingResize, i)
    /\ UNCHANGED <<hasFallback, cycles, counters, domVars, visualVars,
                   measureQueue>>

\* mutant: the denial is not caught and is handled like a failed cycle
ChangeHeightRejected_uncaught(i) ==
    /\ i \in 1..Len(pendingResize)
    /\ pendingResize' = RemoveAt(pendingResize, i)
    /\ placeholderShown' = togglePlaceholder(FALSE)
    /\ mutateQueue' = toggleFallbackInMutate_(TRUE, mutateQueue, fallbackDisplayed_)
    /\ UNCHANGED <<hasFallback, cycles, counters, domVars, measureQueue,
                   offsetHeight, fallbackDisplayed_, fallbackShown, lastReaction>>

\* attemptChangeHeight(scrollHeight) rejected: .catch(() => {})
ChangeHeightRejected(i) ==
    /\ i \in 1..Len(pendingResize)
    /\ pendingResize' = RemoveAt(pendingResize, i)
    /\ UNCHANGED <<hasFallback, cycles, counters, domVars, visualVars,
                   measureQueue, offsetHeight>>

Next ==
    \/ layoutCallback
    \/ \E src \in BOOLEAN, state \in JsonValues \cup {Undefined} :
           mutatedAttributesCallback(src, state)
    \/ \E c \in DOMAIN cycles, v \in JsonValues : FetchResolved(c, v)
    \/ \E c \in DOMAIN cycles : FetchRejected(c)
    \/ \E c \in DOMAIN cycles : RenderResolved(c)
    \/ \E c \in DOMAIN cycles : RenderRejected(c)
    \/ \E c \in DOMAIN cycles : LayoutResolved(c)
    \/ \E c \in DOMAIN cycles : LayoutRejected(c)
    \/ RunMutate
    \/ RunMeasure
    \/ \E i \in 1..MaxCycles : ChangeHeightResolved(i)
    \/ \E i \in 1..MaxCycles : ChangeHeightRejected(i)

Spec == Init /\ [][Next]_vars

\* the data source and the renderer settle every call, every promise reaction
\* runs, and vsync runs every callback it was given
Fairness ==
    /\ WF_vars(\E c \in DOMAIN cycles :
                  FetchRejected(c) \/ \E v \in JsonValues : FetchResolved(c, v))
    /\ WF_vars(\E c \in DOMAIN cycles : RenderResolved(c) \/ RenderRejected(c))
    /\ WF_vars(\E c \in DOMAIN cycles : LayoutResolved(c) \/ LayoutRejected(c))
    /\ WF_vars(RunMutate)
    /\ WF_vars(RunMeasure)
    /\ WF_vars(\E i \in 1..MaxCycles :
                  ChangeHeightResolved(i) \/ ChangeHeightRejected(i))

FairSpec == Spec /\ Fairness

\* ----------------------------------------------------------------- claims
FetchCycle(c) == cycles[c].trigger \in {"layout", "src"}
BecomesResolved(c) == cycles[c].stage # "resolved" /\ cycles'[c].stage = "resolved"
BecomesRejected(c) == cycles[c].stage # "rejected" /\ cycles'[c].stage = "rejected"

\* C1 (as stated): of two fetch cycles c1 < c2 that both resolved, the one
\* started first is never the one whose elements were applied last; the
\* container holds c2's elements.
C1_StaleResultDiscarded ==
    \A c1, c2 \in DOMAIN cycles :
        ( /\ c1 < c2
          /\ FetchCycle(c1) /\ FetchCycle(c2)
          /\ cycles[c1].stage = "resolved" /\ cycles[c2].stage = "resolved"
          /\ lastApplied \in {c1, c2} )
        => /\ lastApplied = c2
           /\ \A i \in DOMAIN container_ : container_[i].cycle = c2

\* C2: after a fetch cycle's array was rendered and rendered_ ran, the cycle is
\* resolved and the container's children are exactly the renderer's elements,
\* in order, none of the previous children kept, each with a non-empty role:
\* its own when it declared one, "listitem" otherwise.
C2_ContainerIsRenderedOutput ==
    (lastApplied # 0 /\ FetchCycle(lastApplied)) =>
        /\ cycles[lastApplied].stage = "resolved"
        /\ cycles[lastApplied].fetched = "array"
        /\ Len(container_) = Len(lastRendered)
        /\ \A i \in DOMAIN container_ :
              /\ container_[i].cycle = lastApplied
              /\ container_[i].item = lastRendered[i].item
              /\ container_[i].role # ""
              /\ container_[i].role =
                    IF lastRendered[i].role # "" THEN lastRendered[i].role
                    ELSE "listitem"

\* C2 witness: a second fetch cycle replaced the first one's children by two
\* elements, one with its own role and one given the default.
C2_Witness ==
    /\ Len(cycles) = 2
    /\ cycles[1].stage = "resolved" /\ cycles[2].stage = "resolved"
    /\ FetchCycle(1) /\ FetchCycle(2)
    /\ lastApplied = 2
    /\ Len(container_) = 2
    /\ container_[1].role = "button" /\ container_[2].role = "listitem"

\* C3: a fetch that delivers a non-array rejects its cycle with the assertion
\* error in that very step, the renderer is never called for the cycle, and
\* the step leaves the children, the event and render counts and the measure
\* queue as they were.
C3_NonArrayRejected ==
    [][\A c \in DOMAIN cycles :
          /\ cycles'[c].fetched = "other" =>
                /\ cycles'[c].stage = "rejected"
                /\ cycles'[c].err = AssertionError
                /\ ~cycles'[c].rendererCalled
          /\ (cycles[c].stage = "fetching" /\ cycles'[c].fetched = "other") =>
                UNCHANGED <<container_, lastApplied, counters, measureQueue>>
      ]_vars

\* C3 witness: a non-array was fetched while the container held children.
C3_Witness ==
    \E c \in DOMAIN cycles :
        /\ cycles[c].fetched = "other"
        /\ cycles[c].stage = "rejected"
        /\ container_ # <<>>

\* C4: with a fallback, a layout cycle whose fetch rejected is rejected with
\* the error that wraps the fetch cause; once its reaction ran the placeholder
\* is hidden, and when it was the last reaction and the mutate queue has
\* drained, the fallback is shown.
C4_FetchFailureShowsFallback ==
    \A c \in DOMAIN cycles :
        (cycles[c].trigger = "layout" /\ cycles[c].reaction
            /\ cycles[c].fetched = "error") =>
            /\ cycles[c].stage = "rejected"
            /\ cycles[c].err.message = "Error fetching amp-list"
            /\ cycles[c].err.cause = NetworkError.message
            /\ cycles[c].handled => ~placeholderShown
            /\ (cycles[c].handled /\ lastReaction.cycle = c /\ mutateQueue = <<>>)
                  => fallbackShown

\* C4 witness: the fetch failed, the reaction ran and the show write ran.
C4_Witness ==
    \E c \in DOMAIN cycles :
        /\ cycles[c].fetched = "error" /\ cycles[c].handled
        /\ lastReaction.cycle = c
        /\ mutateQueue = <<>>
        /\ fallbackShown /\ ~placeholderShown

\* C5 (as stated): without a fallback, once a cycle has failed the placeholder
\* is hidden and no fallback write is queued.
C5_PlaceholderHiddenOnFailure ==
    (~hasFallback /\ \E c \in DOMAIN cycles : cycles[c].stage = "rejected") =>
        /\ ~placeholderShown
        /\ mutateQueue = <<>>

\* C5 (amended): without a fallback no reaction is attached, so nothing is
\* ever queued on the scheduler, the fallback stays hidden and the placeholder
\* stays as it was, failed cycles included.
C5_NoFallbackNoVisualChange ==
    ~hasFallback =>
        /\ mutateQueue = <<>>
        /\ placeholderShown
        /\ ~fallbackShown /\ ~fallbackDisplayed_

\* C5 witness: a layout cycle failed on an element without a fallback.
C5_Witness ==
    /\ ~hasFallback
    /\ \E c \in DOMAIN cycles :
          cycles[c].trigger = "layout" /\ cycles[c].stage = "rejected"
    /\ placeholderShown /\ mutateQueue = <<>>

\* C6 (as stated): two show calls in a row, with no write run in between,
\* queue one write: the mutate queue never holds two consecutive show writes.
C6_ShowScheduledOnce ==
    \A i \in 1..(Len(mutateQueue) - 1) :
        ~(mutateQueue[i] = "show" /\ mutateQueue[i + 1] = "show")

NoShowCalled ==
    \A c \in DOMAIN cycles : ~(cycles[c].stage = "rejected" /\ cycles[c].handled)

\* C7: the success reaction's toggleFallbackInMutate_(false) queues exactly one
\* hide write when fallbackDisplayed_ is set and nothing otherwise; as long as
\* no show was ever called the mutate queue stays empty.
C7_HideOnlyWhenDisplayed ==
    [][/\ \A c \in DOMAIN cycles :
             (cycles[c].stage = "resolved" /\ ~cycles[c].handled
                 /\ cycles'[c].handled) =>
                 mutateQueue' = IF fallbackDisplayed_
                                THEN Append(mutateQueue, "hide")
                                ELSE mutateQueue
       /\ NoShowCalled' => (mutateQueue' = <<>> /\ ~fallbackDisplayed_')
      ]_vars

\* C7 witness: a success reaction found the flag set and queued the hide write.
C7_Witness ==
    /\ lastReaction.kind = "resolved"
    /\ mutateQueue = <<"hide">>
    /\ fallbackDisplayed_

\* C8 (as stated): when the last reaction to run was the success reaction of
\* a layout cycle started after one whose failure reaction ran, and every
\* queued write has run, the fallback is hidden.
C8_LaterSuccessHidesFallback ==
    \A c \in DOMAIN cycles :
        ( /\ lastReaction = [cycle |-> c, kind |-> "resolved"]
          /\ \E f \in DOMAIN cycles :
                f < c /\ cycles[f].stage = "rejected" /\ cycles[f].handled
          /\ mutateQueue = <<>> )
        => ~fallbackShown

\* C9: a cycle that resolves schedules exactly one measure and a measure is
\* scheduled by nothing else; a failing cycle schedules none; a resize is
\* requested only by a running measure callback: once, for the content
\* height, when it exceeds the laid-out height, and not at all otherwise.
C9_HeightReflow ==
    [][/\ (\E c \in DOMAIN cycles : BecomesResolved(c)) =>
             (measureQueue' = measureQueue + 1 /\ UNCHANGED pendingResize)
       /\ (\E c \in DOMAIN cycles : BecomesRejected(c)) =>
             UNCHANGED <<measureQueue, pendingResize>>
       /\ measureQueue' > measureQueue =>
             \E c \in DOMAIN cycles : BecomesResolved(c)
       /\ measureQueue' < measureQueue =>
             /\ measureQueue' = measureQueue - 1
             /\ pendingResize' =
                   IF scrollHeight > offsetHeight
                   THEN Append(pendingResize, scrollHeight)
                   ELSE pendingResize
       /\ Len(pendingResize') > Len(pendingResize) =>
             measureQueue' < measureQueue
      ]_vars

\* C9 witness: two measures ran; only one of them found the content higher
\* than the element and requested the resize.
C9_Witness ==
    /\ counters.measures = 2 /\ measureQueue = 0
    /\ Len(pendingResize) = 1
    /\ pendingResize[1] > offsetHeight

\* C10: the step that settles an attemptChangeHeight promise, granted or
\* denied, leaves every cycle's outcome, the children, the placeholder, the
\* fallback and the mutate queue as they were.
C10_DenialSwallowed ==
    [][Len(pendingResize') < Len(pendingResize) =>
          UNCHANGED <<cycles, container_, lastApplied, placeholderShown,
                      fallbackShown, fallbackDisplayed_, mutateQueue>>
      ]_vars

\* C10 witness: the only render's resize request was denied: nothing is
\* pending and the element is still lower than its content.
C10_Witness ==
    /\ counters.events = 1 /\ counters.measures = 1
    /\ measureQueue = 0 /\ pendingResize = <<>>
    /\ scrollHeight > offsetHeight
    /\ \E c \in DOMAIN cycles : cycles[c].stage = "resolved"

Quiescent ==
    /\ \A c \in DOMAIN cycles :
          /\ cycles[c].stage \in {"resolved", "rejected"}
          /\ cycles[c].reaction => cycles[c].handled
    /\ mutateQueue = <<>> /\ measureQueue = 0 /\ pendingResize = <<>>

\* C12 (as stated): with a fallback, once every started cycle has failed, one
\* of them started by a src mutation, and nothing is in flight any more, the
\* placeholder is hidden and the fallback is shown.
C12_EveryFailureShowsFallback ==
    ( /\ hasFallback
      /\ Quiescent
      /\ \A c \in DOMAIN cycles : cycles[c].stage = "rejected"
      /\ \E c \in DOMAIN cycles : cycles[c].trigger = "src" )
    => (fallbackShown /\ ~placeholderShown)

WithState == {c \in DOMAIN cycles : cycles[c].stateToo}
RendererCalled == {c \in DOMAIN cycles : cycles[c].rendererCalled}

\* C13: a batch with both src and state starts a fetch cycle and nothing else:
\* the call completes, the data source is asked, the renderer is not called
\* until the fetch delivers, and one warning is emitted per such batch; a
\* batch with src alone emits none.
C13_SrcTakesPrecedence ==
    /\ counters.warnings = Cardinality(WithState)
    /\ counters.renders = Cardinality(RendererCalled)
    /\ counters.fetches = Cardinality({c \in DOMAIN cycles : FetchCycle(c)})
    /\ \A c \in WithState :
          /\ cycles[c].trigger = "src"
          /\ cycles[c].supplied = Undefined
          /\ cycles[c].stage = "fetching" =>
                (~cycles[c].rendererCalled /\ cycles[c].items = <<>>)

\* C13 witness: one batch carried src and state, another src alone; one
\* warning was emitted and the renderer has not been called.
C13_Witness ==
    /\ Len(cycles) = 2
    /\ cycles[1].stateToo /\ cycles[1].stage = "fetching"
    /\ cycles[2].trigger = "src" /\ ~cycles[2].stateToo
    /\ counters.warnings = 1 /\ counters.renders = 0 /\ counters.fetches = 2

\* C14: each step that resolves a cycle dispatches exactly one rendered event,
\* whose listener sees all of the cycle's elements in the container, while the
\* cycle's measure is still queued; no other step dispatches one, a failing
\* cycle in particular; so the events count the successful reconciliations.
C14_EventOncePerReconciliation ==
    [][/\ \A c \in DOMAIN cycles :
             /\ BecomesResolved(c) =>
                   /\ counters'.events = counters.events + 1
                   /\ eventChildren' = container_'
                   /\ Len(eventChildren') = Len(lastRendered')
                   /\ \A i \in DOMAIN eventChildren' :
                         eventChildren'[i].cycle = c
                   /\ measureQueue' = measureQueue + 1
             /\ BecomesRejected(c) => counters'.events = counters.events
       /\ counters'.events # counters.events =>
             \E c \in DOMAIN cycles : BecomesResolved(c)
       /\ counters'.events =
             Cardinality({c \in DOMAIN cycles' : cycles'[c].stage = "resolved"})
      ]_vars

\* C14 witness: a second cycle replaced the first one's children by two
\* elements; a second event was dispatched for it and its measure is queued.
C14_Witness ==
    /\ counters.events = 2
    /\ Len(eventChildren) = 2 /\ eventChildren = container_
    /\ measureQueue >= 1

\* C15: the placeholder and the fallback are never visible together: the
\* placeholder is already hidden while a show write is still queued, and so
\* whenever the fallback is shown.
C15_PlaceholderFallbackExclusive ==
    /\ fallbackShown => ~placeholderShown
    /\ (\E i \in DOMAIN mutateQueue : mutateQueue[i] = "show") => ~placeholderShown

\* C15 witness: the show write of a failed cycle has run.
C15_Witness ==
    /\ fallbackShown /\ ~placeholderShown
    /\ lastReaction.kind = "rejected"
    /\ \E c \in DOMAIN cycles : cycles[c].fetched = "other" /\ cycles[c].handled

StateCycle(c) == cycles[c].trigger = "state"

\* C16: the step that takes a batch with state alone leaves the fetch count as
\* it was and calls the renderer once, with the supplied array's items; the
\* cycle never fetches, and when its render resolves the container holds one
\* element per supplied item, in order, each with a role, the fetch count
\* still unchanged.
C16_StateBypassesDataSource ==
    [][/\ (Len(cycles') = Len(cycles) + 1 /\ cycles'[Len(cycles')].trigger = "state") =>
             LET new == cycles'[Len(cycles')]
             IN /\ counters'.fetches = counters.fetches
                /\ counters'.renders = counters.renders + 1
                /\ new.stage = "rendering" /\ new.rendererCalled
                /\ new.fetched = "none"
                /\ new.supplied.arr => new.items = new.supplied.items
       /\ \A c \in DOMAIN cycles :
             StateCycle(c) =>
                /\ cycles'[c].stage # "fetching" /\ cycles'[c].fetched = "none"
                /\ BecomesResolved(c) =>
                      /\ counters'.fetches = counters.fetches
                      /\ lastApplied' = c
                      /\ Len(container_') = Len(cycles[c].items)
                      /\ \A i \in DOMAIN container_' :
                            /\ container_'[i].cycle = c
                            /\ container_'[i].item = cycles[c].items[i]
                            /\ container_'[i].role # ""
      ]_vars

\* C16 witness: a supplied two-item array was rendered into the container
\* without any fetch.
C16_Witness ==
    /\ counters.fetches = 0
    /\ lastApplied # 0 /\ StateCycle(lastApplied)
    /\ Len(container_) = 2
    /\ container_[1].item = "b" /\ container_[2].item = "a"

Settled(c) == c \in DOMAIN cycles /\ cycles[c].stage \in {"resolved", "rejected"}

\* C17: under fairness every started cycle's promise eventually settles,
\* resolved or rejected, however many cycles overlap, and the controller comes
\* to rest with nothing in flight.
C17_EveryCycleSettles ==
    /\ \A c \in 1..MaxCycles : (c \in DOMAIN cycles) ~> Settled(c)
    /\ <>[]Quiescent

\* C17 witness: the first cycle failed, a later cycle succeeded and applied its
\* elements, and nothing is in flight.
C17_Witness ==
    /\ Len(cycles) = 2
    /\ cycles[1].stage = "rejected" /\ FetchCycle(1)
    /\ cycles[2].stage = "resolved" /\ FetchCycle(2)
    /\ lastApplied = 2 /\ container_ # <<>>
    /\ Quiescent

\* C18: the fallbackDisplayed_ flag equals the fallback's actual visibility in
\* every reachable state, with writes still queued or not.
C18_FlagMatchesVisibility ==
    fallbackDisplayed_ = fallbackShown

\* C18 witness: a failed cycle's show write ran and a later success's hide
\* write ran after it.
C18_Witness ==
    /\ ~fallbackShown /\ ~fallbackDisplayed_
    /\ lastReaction.kind = "resolved"
    /\ \E c \in DOMAIN cycles : cycles[c].stage = "rejected" /\ cycles[c].handled
    /\ mutateQueue = <<>>

\* C19: the step in which a cycle's fetch or render rejects leaves the
\* children exactly as they were (the list rendered before stays in place),
\* dispatches no event and schedules no measure.
C19_FailureLeavesContainer ==
    [][\A c \in DOMAIN cycles :
          (BecomesRejected(c) /\ cycles'[c].err # AssertionError) =>
              /\ cycles'[c].err \in
                    {createError("Error fetching amp-list", NetworkError),
                     TemplateError}
              /\ container_' = container_
              /\ lastApplied' = lastApplied
              /\ counters'.events = counters.events
              /\ counters'.measures = counters.measures
              /\ measureQueue' = measureQueue
      ]_vars

\* C19 witness: a cycle's fetch rejected after an earlier cycle had rendered a
\* list, which is still in place.
C19_Witness ==
    /\ Len(cycles) = 2
    /\ cycles[1].stage = "resolved"
    /\ cycles[2].fetched = "error" /\ cycles[2].stage = "rejected"
    /\ lastApplied = 1 /\ Len(container_) = 2
    /\ counters.events = 1

\* C20: a state value that is not an array is handed to the renderer as the
\* one-item list holding it, an array state value as it is; the cycle is never
\* rejected by the array assertion, and when the render of a non-array value
\* resolves the container holds the one element rendered for that value.
C20_NonArrayStateWrapped ==
    [][/\ (Len(cycles') = Len(cycles) + 1 /\ cycles'[Len(cycles')].trigger = "state") =>
             LET new == cycles'[Len(cycles')]
             IN /\ new.supplied # Undefined
                /\ ~new.supplied.arr => new.items = <<new.supplied.val>>
                /\ new.supplied.arr => new.items = new.supplied.items
       /\ \A c \in DOMAIN cycles :
             StateCycle(c) =>
                /\ cycles'[c].err # AssertionError
                /\ (BecomesResolved(c) /\ ~cycles[c].supplied.arr) =>
                      /\ Len(container_') = 1
                      /\ container_'[1].item = cycles[c].supplied.val
      ]_vars

\* C20 witness: the non-array state value "b" was supplied and its single
\* element is being rendered.
C20_Witness ==
    \E c \in DOMAIN cycles :
        /\ StateCycle(c) /\ cycles[c].stage = "rendering"
        /\ cycles[c].supplied = JsonScalar("b")
        /\ cycles[c].items = <<"b">>

====
